---- MODULE Spec2Model ----
(***************************************************************************)
(* Model of stdlib/py/hstd/spatial.py: the four distance functions,        *)
(* distance_between, normalize_vector and random_position.                 *)
(*                                                                         *)
(* Numbers.  A Python float is modelled in fixed point: the integer v      *)
(* stands for the real number v / Scale.  A Python int n is the TLA+       *)
(* integer n; float(n) is n * Scale.  Sums, differences, abs and max are   *)
(* exact in this representation; products, quotients and square roots are  *)
(* rounded to the grid, as the hardware rounds them to the nearest float.  *)
(*                                                                         *)
(* Optional values.  None is the empty tuple; a present position is a      *)
(* 3-tuple, present bounds are a 2-tuple, a returned value v is <<v>>.     *)
(***************************************************************************)
EXTENDS Integers, Sequences, FiniteSets, TLC

VARIABLES
    input,      \* the data the caller owns: two agents, a vector, or a topology
    call,       \* the last call made: function name and call-time arguments
    ret,        \* what the last call returned: <<v>>, or <<>> when it raised
    err,        \* the exception the last call raised (type "none" when it returned)
    drawn,      \* the random.uniform draws the last call made, in order
    rngDraws    \* how many values the shared random source has produced so far

vars == <<input, call, ret, err, drawn, rngDraws>>

----------------------------------------------------------------------------
(* Bounds of the model *)

Scale == 2        \* grid resolution of the modelled floats: 1/Scale
MaxCoord == 1     \* agent coordinates range over the integers -MaxCoord..MaxCoord
MaxBound == 3     \* topology bounds range over -MaxBound..MaxBound grid steps
MaxDim == 2       \* vectors given to normalize_vector have 0..MaxDim components
MaxDraws == 5     \* random_position is called while the source has draws left

----------------------------------------------------------------------------
(* Python values *)

None == <<>>

Real(n) == n * Scale

NoError == [type |-> "none", agent_id |-> "", field |-> ""]

AgentFieldError(agent_id, field) ==
    [type |-> "AgentFieldError", agent_id |-> agent_id, field |-> field]

ValueError == [type |-> "ValueError", agent_id |-> "", field |-> ""]

ZeroDivisionError == [type |-> "ZeroDivisionError", agent_id |-> "", field |-> ""]

Return(v) == [ret |-> <<v>>, err |-> NoError]

Raise(e) == [ret |-> <<>>, err |-> e]

----------------------------------------------------------------------------
(* Float arithmetic on the grid *)

abs(x) == IF x < 0 THEN -x ELSE x

max(x, y, z) ==
    IF x >= y /\ x >= z THEN x
    ELSE IF y >= z THEN y
    ELSE z

\* x * y, rounded down to the grid; exact when x and y are integer-valued
mul(x, y) == (x * y) \div Scale

\* x / y for y > 0, rounded to the nearest grid value
div(x, y) == (2 * x * Scale + y) \div (2 * y)

\* math.sqrt(x) for x >= 0, rounded to the nearest grid value:
\* the r with r - 1/2 <= sqrt(x * Scale) < r + 1/2
sqrt(x) ==
    CHOOSE r \in 0..(x + Scale) :
        /\ (r = 0 \/ (2 * r - 1) * (2 * r - 1) <= 4 * x * Scale)
        /\ 4 * x * Scale < (2 * r + 1) * (2 * r + 1)

\* int() as it would be if it rounded down instead of toward zero
int_floor(u) == u \div Scale

\* the int() builtin of a float: truncation toward zero
int(u) == IF u >= 0 THEN u \div Scale ELSE -((-u) \div Scale)

\* the values random.uniform(lo, hi) can produce: lo <= u <= hi
uniform(lo, hi) == lo..hi

RECURSIVE SumSq(_)
SumSq(vec) ==
    IF vec = <<>> THEN 0
    ELSE mul(Head(vec), Head(vec)) + SumSq(Tail(vec))

----------------------------------------------------------------------------
(* The distance functions *)

\* manhattan_distance as it would be without the abs() calls
manhattan_distance_signed(p1, p2) ==
    LET dx == p1[1] - p2[1]
        dy == p1[2] - p2[2]
        dz == p1[3] - p2[3]
    IN  dx + dy + dz

manhattan_distance(p1, p2) ==
    LET dx == abs(p1[1] - p2[1])
        dy == abs(p1[2] - p2[2])
        dz == abs(p1[3] - p2[3])
    IN  dx + dy + dz

euclidean_squared_distance(p1, p2) ==
    LET dx == p1[1] - p2[1]
        dy == p1[2] - p2[2]
        dz == p1[3] - p2[3]
    IN  mul(dx, dx) + mul(dy, dy) + mul(dz, dz)

euclidean_distance(p1, p2) == sqrt(euclidean_squared_distance(p1, p2))

chebyshev_distance(p1, p2) ==
    LET dx == abs(p1[1] - p2[1])
        dy == abs(p1[2] - p2[2])
        dz == abs(p1[3] - p2[3])
    IN  max(dx, dy, dz)

DefaultDistance == "euclidean"

\* distance_between as it would be with two branches of the dispatch swapped
distance_between_swapped(a, b, distance) ==
    IF a.position = None
        THEN Raise(AgentFieldError(a.agent_id, "position"))
    ELSE IF b.position = None
        THEN Raise(AgentFieldError(b.agent_id, "position"))
    ELSE IF distance = "euclidean"
        THEN Return(euclidean_distance(a.position, b.position))
    ELSE IF distance = "euclidean_sq"
        THEN Return(euclidean_squared_distance(a.position, b.position))
    ELSE IF distance = "manhattan"
        THEN Return(chebyshev_distance(a.position, b.position))
    ELSE IF distance = "chebyshev"
        THEN Return(manhattan_distance(a.position, b.position))
    ELSE Raise(ValueError)

\* distance_between as it would be if the second check reported agent a
distance_between_wrong_agent(a, b, distance) ==
    IF a.position = None
        THEN Raise(AgentFieldError(a.agent_id, "position"))
    ELSE IF b.position = None
        THEN Raise(AgentFieldError(a.agent_id, "position"))
    ELSE IF distance = "euclidean"
        THEN Return(euclidean_distance(a.position, b.position))
    ELSE IF distance = "euclidean_sq"
        THEN Return(euclidean_squared_distance(a.position, b.position))
    ELSE IF distance = "manhattan"
        THEN Return(manhattan_distance(a.position, b.position))
    ELSE IF distance = "chebyshev"
        THEN Return(chebyshev_distance(a.position, b.position))
    ELSE Raise(ValueError)

\* distance_between as it would be if an unrecognized metric fell through
\* to the end of the function and returned None
distance_between_fallthrough(a, b, distance) ==
    IF a.position = None
        THEN Raise(AgentFieldError(a.agent_id, "position"))
    ELSE IF b.position = None
        THEN Raise(AgentFieldError(b.agent_id, "position"))
    ELSE IF distance = "euclidean"
        THEN Return(euclidean_distance(a.position, b.position))
    ELSE IF distance = "euclidean_sq"
        THEN Return(euclidean_squared_distance(a.position, b.position))
    ELSE IF distance = "manhattan"
        THEN Return(manhattan_distance(a.position, b.position))
    ELSE IF distance = "chebyshev"
        THEN Return(chebyshev_distance(a.position, b.position))
    ELSE Return(None)

\* distance_between as it would be if the metric were validated first
distance_between_metric_first(a, b, distance) ==
    IF distance \notin {"euclidean", "euclidean_sq", "manhattan", "chebyshev"}
        THEN Raise(ValueError)
    ELSE IF a.position = None
        THEN Raise(AgentFieldError(a.agent_id, "position"))
    ELSE IF b.position = None
        THEN Raise(AgentFieldError(b.agent_id, "position"))
    ELSE IF distance = "euclidean"
        THEN Return(euclidean_distance(a.position, b.position))
    ELSE IF distance = "euclidean_sq"
        THEN Return(euclidean_squared_distance(a.position, b.position))
    ELSE IF distance = "manhattan"
        THEN Return(manhattan_distance(a.position, b.position))
    ELSE Return(chebyshev_distance(a.position, b.position))

distance_between(a, b, distance) ==
    IF a.position = None
        THEN Raise(AgentFieldError(a.agent_id, "position"))
    ELSE IF b.position = None
        THEN Raise(AgentFieldError(b.agent_id, "position"))
    ELSE IF distance = "euclidean"
        THEN Return(euclidean_distance(a.position, b.position))
    ELSE IF distance = "euclidean_sq"
        THEN Return(euclidean_squared_distance(a.position, b.position))
    ELSE IF distance = "manhattan"
        THEN Return(manhattan_distance(a.position, b.position))
    ELSE IF distance = "chebyshev"
        THEN Return(chebyshev_distance(a.position, b.position))
    ELSE Raise(ValueError)

----------------------------------------------------------------------------
(* normalize_vector *)

\* normalize_vector as it would be with a guard returning a zero vector as is
normalize_vector_guarded(vec) ==
    LET magnitude == sqrt(SumSq(vec))
    IN  IF magnitude = 0
            THEN Return(vec)
        ELSE Return([i \in 1..Len(vec) |-> div(vec[i], magnitude)])

\* the list comprehension divides component by component: the first
\* division by a zero magnitude raises; an empty vector divides nothing
normalize_vector(vec) ==
    LET magnitude == sqrt(SumSq(vec))
    IN  IF Len(vec) > 0 /\ magnitude = 0
            THEN Raise(ZeroDivisionError)
        ELSE Return([i \in 1..Len(vec) |-> div(vec[i], magnitude)])

----------------------------------------------------------------------------
(* random_position *)

Draw(axis, bounds, u) == [axis |-> axis, lo |-> bounds[1], hi |-> bounds[2], u |-> u]

\* random_position as it would be if absent z_bounds left z at 0
random_position_lenient(topology, z_plane, ux, uy, uz) ==
    LET xpos == int(ux)
        ypos == int(uy)
        xy == <<Draw("x", topology.x_bounds, ux), Draw("y", topology.y_bounds, uy)>>
    IN  IF z_plane /\ topology.z_bounds # None
            THEN [ret |-> << <<xpos, ypos, int(uz)>> >>, err |-> NoError,
                  drawn |-> Append(xy, Draw("z", topology.z_bounds, uz))]
        ELSE [ret |-> << <<xpos, ypos, 0>> >>, err |-> NoError, drawn |-> xy]

\* random_position as it would be if z_bounds were validated before sampling
random_position_validate_first(topology, z_plane, ux, uy, uz) ==
    LET xpos == int(ux)
        ypos == int(uy)
        xy == <<Draw("x", topology.x_bounds, ux), Draw("y", topology.y_bounds, uy)>>
    IN  IF z_plane /\ topology.z_bounds = None
            THEN [ret |-> <<>>, err |-> ValueError, drawn |-> <<>>]
        ELSE IF z_plane
            THEN [ret |-> << <<xpos, ypos, int(uz)>> >>, err |-> NoError,
                  drawn |-> Append(xy, Draw("z", topology.z_bounds, uz))]
        ELSE [ret |-> << <<xpos, ypos, 0>> >>, err |-> NoError, drawn |-> xy]

\* ux, uy, uz are the values the random source yields for the first, second
\* and third random.uniform call of this invocation (uz is unused when the
\* third call is never made).  The result also carries the draws made.
random_position(topology, z_plane, ux, uy, uz) ==
    LET xpos == int(ux)
        ypos == int(uy)
        xy == <<Draw("x", topology.x_bounds, ux), Draw("y", topology.y_bounds, uy)>>
    IN  IF z_plane
            THEN IF topology.z_bounds = None
                     THEN [ret |-> <<>>, err |-> ValueError, drawn |-> xy]
                 ELSE [ret |-> << <<xpos, ypos, int(uz)>> >>, err |-> NoError,
                       drawn |-> Append(xy, Draw("z", topology.z_bounds, uz))]
        ELSE [ret |-> << <<xpos, ypos, 0>> >>, err |-> NoError, drawn |-> xy]

----------------------------------------------------------------------------
(* Inputs *)

Coords == {Real(n) : n \in -MaxCoord..MaxCoord}

\* the integer lattice points, and the two points of the documented example
Points ==
    (Coords \X Coords \X Coords)
        \cup {<<Real(0), Real(0), Real(0)>>, <<Real(3), Real(4), Real(0)>>}

\* the two agents handed to distance_between, each with or without a position
AgentsA == [agent_id : {"agent_a"}, position : Points \cup {None}]

AgentsB == [agent_id : {"agent_b"}, position : Points \cup {None}]

Distances == {"euclidean", "euclidean_sq", "manhattan", "chebyshev"}

Omitted == "<omitted>"

\* what a caller may pass as `distance`: a recognized literal, nothing, or
\* some other string
DistanceArgs == Distances \cup {Omitted, "taxicab", "Euclidean", ""}

Components == {Real(n) : n \in -1..1}

Vectors == UNION {[1..n -> Components] : n \in 0..MaxDim}

BoundPairs(m) == {p \in (-m..m) \X (-m..m) : p[1] <= p[2]}

Wide == BoundPairs(MaxBound)

Narrow == BoundPairs(1)

\* ordered [min, max] bounds, fractional and negative values included; one
\* axis at a time ranges over the wide set of bounds
Topologies ==
    [x_bounds : Wide, y_bounds : Narrow, z_bounds : Narrow \cup {None}]
        \cup [x_bounds : Narrow, y_bounds : Wide, z_bounds : Narrow \cup {None}]
        \cup [x_bounds : Narrow, y_bounds : Narrow, z_bounds : Wide \cup {None}]

NoCall == [fn |-> "none"]

----------------------------------------------------------------------------
(* Specification *)

\* The functions keep no state of their own, so a behaviour fixes the
\* caller's data first. The pure functions are applied to it once; the
\* random source is shared state, so random_position is called repeatedly.
Init ==
    /\ input \in [kind : {"agents"}, a : AgentsA, b : AgentsB]
                 \cup [kind : {"vector"}, vec : Vectors]
                 \cup [kind : {"topology"}, topology : Topologies]
    /\ call = NoCall
    /\ ret = <<>>
    /\ err = NoError
    /\ drawn = <<>>
    /\ rngDraws = 0

Finish(fn, result) ==
    /\ call = NoCall
    /\ call' = fn
    /\ ret' = result.ret
    /\ err' = result.err
    /\ drawn' = <<>>
    /\ UNCHANGED <<input, rngDraws>>

PointsPresent ==
    /\ input.kind = "agents"
    /\ input.a.position # None
    /\ input.b.position # None

ManhattanDistance ==
    /\ PointsPresent
    /\ Finish([fn |-> "manhattan_distance"],
              Return(manhattan_distance(input.a.position, input.b.position)))

EuclideanSquaredDistance ==
    /\ PointsPresent
    /\ Finish([fn |-> "euclidean_squared_distance"],
              Return(euclidean_squared_distance(input.a.position, input.b.position)))

EuclideanDistance ==
    /\ PointsPresent
    /\ Finish([fn |-> "euclidean_distance"],
              Return(euclidean_distance(input.a.position, input.b.position)))

ChebyshevDistance ==
    /\ PointsPresent
    /\ Finish([fn |-> "chebyshev_distance"],
              Return(chebyshev_distance(input.a.position, input.b.position)))

DistanceBetween ==
    /\ input.kind = "agents"
    /\ \E arg \in DistanceArgs :
          LET distance == IF arg = Omitted THEN DefaultDistance ELSE arg
          IN  Finish([fn |-> "distance_between", distance |-> arg],
                     distance_between(input.a, input.b, distance))

NormalizeVector ==
    /\ input.kind = "vector"
    /\ Finish([fn |-> "normalize_vector"], normalize_vector(input.vec))

RandomPosition ==
    /\ input.kind = "topology"
    /\ rngDraws + 3 <= MaxDraws
    /\ \E z_plane \in BOOLEAN :
       \E ux \in uniform(input.topology.x_bounds[1], input.topology.x_bounds[2]) :
       \E uy \in uniform(input.topology.y_bounds[1], input.topology.y_bounds[2]) :
       \E uz \in IF z_plane /\ input.topology.z_bounds # None
                    THEN uniform(input.topology.z_bounds[1], input.topology.z_bounds[2])
                    ELSE {0} :
          LET result == random_position(input.topology, z_plane, ux, uy, uz)
          IN  /\ call' = [fn |-> "random_position", z_plane |-> z_plane]
              /\ ret' = result.ret
              /\ err' = result.err
              /\ drawn' = result.drawn
              /\ rngDraws' = rngDraws + Len(result.drawn)
              /\ UNCHANGED input

Next ==
    \/ ManhattanDistance
    \/ EuclideanSquaredDistance
    \/ EuclideanDistance
    \/ ChebyshevDistance
    \/ DistanceBetween
    \/ NormalizeVector
    \/ RandomPosition

Spec == Init /\ [][Next]_vars

----------------------------------------------------------------------------
(* Properties *)

CalledDistanceBetween == call.fn = "distance_between"

CalledRandomPosition == call.fn = "random_position"

Origin == <<Real(0), Real(0), Real(0)>>

P340 == <<Real(3), Real(4), Real(0)>>

Absent == {ag \in {input.a, input.b} : ag.position = None}

\* C1: with both positions present and a recognized (or omitted) metric,
\* distance_between returns the value of the matching distance function on
\* (a.position, b.position), euclidean_distance when the metric is omitted;
\* for (0,0,0) and (3,4,0): manhattan 7, euclidean 5, euclidean_sq 25,
\* chebyshev 4.
C1_DistanceBetweenDispatch ==
    (CalledDistanceBetween /\ PointsPresent /\ call.distance \in Distances \cup {Omitted}) =>
        LET p1 == input.a.position
            p2 == input.b.position
            d == call.distance
        IN  /\ err = NoError
            /\ d = "euclidean" => ret = <<euclidean_distance(p1, p2)>>
            /\ d = Omitted => ret = <<euclidean_distance(p1, p2)>>
            /\ d = "euclidean_sq" => ret = <<euclidean_squared_distance(p1, p2)>>
            /\ d = "manhattan" => ret = <<manhattan_distance(p1, p2)>>
            /\ d = "chebyshev" => ret = <<chebyshev_distance(p1, p2)>>
            /\ (p1 = Origin /\ p2 = P340) =>
                  /\ d = "manhattan" => ret = <<Real(7)>>
                  /\ d = "euclidean" => ret = <<Real(5)>>
                  /\ d = Omitted => ret = <<Real(5)>>
                  /\ d = "euclidean_sq" => ret = <<Real(25)>>
                  /\ d = "chebyshev" => ret = <<Real(4)>>

C1_Witness ==
    /\ CalledDistanceBetween
    /\ input.a.position = Origin
    /\ input.b.position = P340
    /\ call.distance = "manhattan"
    /\ ret = <<Real(7)>>

\* C2: when the position of a or of b is absent, distance_between returns
\* nothing and raises AgentFieldError for the field "position", carrying the
\* agent_id of an agent whose position is absent.
C2_AbsentPositionRaisesFieldError ==
    (CalledDistanceBetween /\ Absent # {}) =>
        /\ ret = <<>>
        /\ err.type = "AgentFieldError"
        /\ err.field = "position"
        /\ err.agent_id \in {ag.agent_id : ag \in Absent}

C2_Witness ==
    /\ CalledDistanceBetween
    /\ input.a.position # None
    /\ input.b.position = None
    /\ err = AgentFieldError("agent_b", "position")

\* C3: with both positions present and a metric that is none of the four
\* literals, distance_between raises ValueError and returns nothing.
C3_UnknownMetricRaisesValueError ==
    (CalledDistanceBetween /\ PointsPresent /\ call.distance \notin Distances \cup {Omitted}) =>
        /\ ret = <<>>
        /\ err = ValueError

C3_Witness ==
    /\ CalledDistanceBetween
    /\ PointsPresent
    /\ call.distance = "taxicab"
    /\ err = ValueError
    /\ ret = <<>>

\* C4: random_position(topology, z_plane=False) returns a 3-vector of
\* integers with z = 0, x within x_bounds and y within y_bounds, for all
\* ordered real bounds and all draws.
C4_SampleWithinBounds ==
    (CalledRandomPosition /\ ~call.z_plane) =>
        /\ err = NoError
        /\ Len(ret) = 1
        /\ Len(ret[1]) = 3
        /\ \A i \in 1..3 : ret[1][i] \in Int
        /\ ret[1][3] = 0
        /\ input.topology.x_bounds[1] <= Real(ret[1][1])
        /\ Real(ret[1][1]) <= input.topology.x_bounds[2]
        /\ input.topology.y_bounds[1] <= Real(ret[1][2])
        /\ Real(ret[1][2]) <= input.topology.y_bounds[2]

\* C5: with z_bounds absent, random_position(z_plane=True) raises ValueError
\* and returns nothing, and random_position(z_plane=False) returns a
\* position with z = 0.
C5_AbsentZBounds ==
    (CalledRandomPosition /\ input.topology.z_bounds = None) =>
        /\ call.z_plane => (ret = <<>> /\ err = ValueError)
        /\ ~call.z_plane => (err = NoError /\ Len(ret) = 1 /\ ret[1][3] = 0)

C5_Witness ==
    /\ CalledRandomPosition
    /\ input.topology.z_bounds = None
    /\ call.z_plane
    /\ err = ValueError
    /\ ret = <<>>

\* C6: for all points, manhattan >= chebyshev >= 0 and
\* chebyshev <= euclidean <= manhattan, the latter also through the square:
\* chebyshev^2 <= euclidean_squared <= manhattan^2. Stated of the value each
\* function returned against the other three on the same points.
C6_MetricOrdering ==
    (PointsPresent /\ call # NoCall /\ ~CalledDistanceBetween) =>
        LET p1 == input.a.position
            p2 == input.b.position
            m == manhattan_distance(p1, p2)
            c == chebyshev_distance(p1, p2)
            e == euclidean_distance(p1, p2)
            esq == euclidean_squared_distance(p1, p2)
            r == ret[1]
        IN  /\ call.fn = "manhattan_distance" =>
                (r >= c /\ r >= e /\ mul(r, r) >= esq)
            /\ call.fn = "chebyshev_distance" =>
                (r >= 0 /\ r <= m /\ r <= e /\ mul(r, r) <= esq)
            /\ call.fn = "euclidean_distance" =>
                (c <= r /\ r <= m)
            /\ call.fn = "euclidean_squared_distance" =>
                (mul(c, c) <= r /\ r <= mul(m, m))

C6_Witness ==
    /\ PointsPresent
    /\ call.fn = "manhattan_distance"
    /\ input.a.position[1] < input.b.position[1]
    /\ input.a.position[2] > input.b.position[2]
    /\ ret[1] > euclidean_distance(input.a.position, input.b.position)
    /\ euclidean_distance(input.a.position, input.b.position)
            > chebyshev_distance(input.a.position, input.b.position)

\* C7: for a vector of one or more components, all zero, normalize_vector
\* raises a division error and returns no vector.
C7_ZeroVectorRaises ==
    (call.fn = "normalize_vector" /\ Len(input.vec) >= 1
            /\ \A i \in 1..Len(input.vec) : input.vec[i] = 0) =>
        /\ ret = <<>>
        /\ err = ZeroDivisionError

C7_Witness ==
    /\ call.fn = "normalize_vector"
    /\ input.vec = <<0, 0>>
    /\ err = ZeroDivisionError
    /\ ret = <<>>

\* C8: every sampled component is the draw u truncated toward zero: floor(u)
\* for u >= 0, ceil(u) for u < 0, so |component| <= |u| and
\* |component - u| < 1; the same for x, y and, when sampled, z.
C8_TruncationTowardZero ==
    (CalledRandomPosition /\ err = NoError) =>
        \A i \in 1..Len(drawn) :
            LET u == drawn[i].u
                n == Real(ret[1][i])
            IN  /\ u >= 0 => (n <= u /\ u < n + Scale)
                /\ u < 0 => (n >= u /\ u > n - Scale)
                /\ abs(n) <= abs(u)
                /\ abs(n - u) < Scale

C8_Witness ==
    /\ CalledRandomPosition
    /\ err = NoError
    /\ Len(drawn) = 3
    /\ \E i \in 1..3 :
          drawn[i].u < -Scale /\ drawn[i].u % Scale # 0 /\ Real(ret[1][i]) > drawn[i].u
    /\ \E i \in 1..3 :
          drawn[i].u > 0 /\ drawn[i].u % Scale # 0 /\ Real(ret[1][i]) < drawn[i].u

\* C9: distance_between checks a.position, then b.position, then the metric:
\* with both positions absent the error carries a's agent_id; with a position
\* absent and the metric unrecognized the field error is raised, not
\* ValueError; ValueError is raised only with both positions present.
C9_CheckOrder ==
    CalledDistanceBetween =>
        /\ (input.a.position = None /\ input.b.position = None) =>
              err = AgentFieldError(input.a.agent_id, "position")
        /\ (Absent # {} /\ call.distance \notin Distances \cup {Omitted}) =>
              err.type = "AgentFieldError"
        /\ err.type = "ValueError" => PointsPresent

C9_Witness ==
    /\ CalledDistanceBetween
    /\ input.a.position = None
    /\ input.b.position = None
    /\ call.distance = "taxicab"
    /\ err = AgentFieldError("agent_a", "position")

Axes(draws) == [i \in 1..Len(draws) |-> draws[i].axis]

\* C10: each call of random_position draws x, then y, then z from the shared
\* source, each from its own axis' bounds: two draws for a successful call
\* with z_plane False, three with z_plane True, and two for a call that
\* raises ValueError for absent z_bounds, so the failed call still advances
\* the source.
C10_DrawOrderAndCount ==
    [][input.kind = "topology" =>
          /\ call'.fn = "random_position"
          /\ rngDraws' - rngDraws = Len(drawn')
          /\ (err' = NoError /\ ~call'.z_plane) =>
                (Axes(drawn') = <<"x", "y">> /\ rngDraws' = rngDraws + 2)
          /\ (err' = NoError /\ call'.z_plane) =>
                (Axes(drawn') = <<"x", "y", "z">> /\ rngDraws' = rngDraws + 3)
          /\ err' # NoError =>
                /\ err' = ValueError
                /\ Axes(drawn') = <<"x", "y">>
                /\ rngDraws' = rngDraws + 2
                /\ rngDraws' # rngDraws
          /\ \A i \in 1..Len(drawn') :
                <<drawn'[i].lo, drawn'[i].hi>> =
                    CASE drawn'[i].axis = "x" -> input.topology.x_bounds
                      [] drawn'[i].axis = "y" -> input.topology.y_bounds
                      [] drawn'[i].axis = "z" -> input.topology.z_bounds
    ]_vars

C10_Witness ==
    /\ CalledRandomPosition
    /\ err = ValueError
    /\ Axes(drawn) = <<"x", "y">>
    /\ rngDraws = 4

====
